---- MODULE Spec2Model ----
(***************************************************************************)
(* Model of pdf_mcp/server.py: the page cache (a cache directory next to   *)
(* the document, a metadata file, render artifacts), the page range        *)
(* clamping of the range tools and the tools built on them.                *)
(*                                                                         *)
(* Spec      : the tools called one after another on a small file system,  *)
(*             with the source documents and the metadata file changed by  *)
(*             the environment between calls.                              *)
(* RangeSpec : the page range computation of read_pdf_text, read_pdf_all   *)
(*             and read_pdf_smart applied to bounded inputs.               *)
(* TamperSpec: the tools that use the cache, with the metadata file        *)
(*             overwritten or removed between calls.                       *)
(* PairSpec  : two documents of one folder whose names share the stem,     *)
(*             and so the cache directory.                                 *)
(* RaceSpec  : two server processes calling read_pdf_page and              *)
(*             clear_pdf_cache on one document at the same time, one file  *)
(*             system call at a time.                                      *)
(* ModSpec   : one call of read_pdf_page or render_pdf_page, step by step, *)
(*             with the document rewritten between its steps.              *)
(***************************************************************************)
EXTENDS Integers, Sequences, FiniteSets, TLC

(***************************************************************************)
(* Bounds of the model.                                                    *)
(***************************************************************************)
\* the clock runs 0..MaxClock; a written source gets mtime = the clock
MaxClock == 1
\* the per-file write counter stops counting at WriteCap
WriteCap == 2
\* RangeSpec: documents of 0..MaxTotal pages
MaxTotal == 3
\* RangeSpec: start_page and end_page range over None and -RangeSlack..MaxTotal+RangeSlack
RangeSlack == 2
\* RaceSpec: each process makes at most MaxCalls calls
MaxCalls == 1

(***************************************************************************)
(* Program constants.                                                      *)
(***************************************************************************)
CACHE_META_FILE == ".cache_meta.json"
DefaultDpi == 150
MaxSummaryPages == 10
BaseDpi == 72
PadWidth == 3
BytesPerMB == 1048576

\* Optional[int]: None is <<>>, the integer n is <<n>>
None == <<>>
Some(n) == <<n>>

(***************************************************************************)
(* Paths.  A path is (parent, stem, suffix), as pathlib splits it.         *)
(***************************************************************************)
PathA == [parent |-> "docs", stem |-> "a", suffix |-> ".pdf"]
PathB == [parent |-> "docs", stem |-> "a", suffix |-> ".xps"]
Paths == {PathA, PathB}
\* the documents the calls of Spec are made on
ActivePaths == {PathA}

PathName(p) == p.stem \o p.suffix
PathStr(p) == p.parent \o "/" \o PathName(p)

\* f"{pdf_path.stem}_pdf_cache" under pdf_path.parent
CacheDirName(p) == p.stem \o "_pdf_cache"
CacheDirOf(p) == p.parent \o "/" \o CacheDirName(p)
CacheDirs == {CacheDirOf(p) : p \in Paths}

\* the strings above, computed once per path
PathStrs == [p \in Paths |-> PathStr(p)]
DirOf == [p \in Paths |-> CacheDirOf(p)]

(***************************************************************************)
(* Formatting of integers, as the f-strings do it.                         *)
(***************************************************************************)
DigitChar(d) == <<"0", "1", "2", "3", "4", "5", "6", "7", "8", "9">>[d + 1]

RECURSIVE NatStr(_)
NatStr(n) == IF n < 10 THEN DigitChar(n) ELSE NatStr(n \div 10) \o DigitChar(n % 10)

\* str(n) / f"{n}"
IntStr(n) == IF n < 0 THEN "-" \o NatStr(-n) ELSE NatStr(n)

RECURSIVE ZeroFill(_, _)
ZeroFill(s, width) == IF Len(s) >= width THEN s ELSE ZeroFill("0" \o s, width)

\* f"{n:03d}": the sign first, then zeros up to the width
Pad3(n) == IF n < 0 THEN "-" \o ZeroFill(NatStr(-n), PadWidth - 1)
           ELSE ZeroFill(NatStr(n), PadWidth)

\* f"page_{page_number:03d}.png"
DefaultArtifactName(page) == "page_" \o Pad3(page) \o ".png"

DpiArtifactNameNoDpi(page, dpi) == "page_" \o Pad3(page) \o ".png"
\* f"page_{page_number:03d}_{dpi}dpi.png"
DpiArtifactName(page, dpi) == "page_" \o Pad3(page) \o "_" \o IntStr(dpi) \o "dpi.png"

(***************************************************************************)
(* The Document Library (fitz), as far as the tools use it.  A document's  *)
(* content is decided by its byte size: each page reports a number of      *)
(* embedded images and of vector drawings, and has a size in points.       *)
(***************************************************************************)
SrcSizes == {1000, 2000}

DocPages(size) ==
    IF size = 1000
    THEN << [images |-> 0, drawings |-> 0, text |-> "alpha", wpt |-> 72, hpt |-> 144],
            [images |-> 1, drawings |-> 0, text |-> "",      wpt |-> 72, hpt |-> 144] >>
    ELSE << [images |-> 0, drawings |-> 2, text |-> "beta",  wpt |-> 144, hpt |-> 72],
            [images |-> 1, drawings |-> 1, text |-> "gamma", wpt |-> 144, hpt |-> 72] >>

PageNumbers == 1..Len(DocPages(1000))
\* the resolutions render_pdf_page is called with
Dpis == {150, 300}

\* the artifact names, computed once per page and resolution
DefaultNames == [page \in PageNumbers |-> DefaultArtifactName(page)]
DpiNames == [page \in PageNumbers, dpi \in Dpis |-> DpiArtifactName(page, dpi)]

NoFile == [exists |-> FALSE]
SrcFile(mtime, size) == [exists |-> TRUE, mtime |-> mtime, size |-> size]

\* fitz.Page.get_pixmap(matrix=Matrix(dpi/72, dpi/72)): the pixel size
PixWidth(pg, dpi) == (pg.wpt * dpi) \div BaseDpi
PixHeight(pg, dpi) == (pg.hpt * dpi) \div BaseDpi

\* pixmap.save(): the file written, stamped with what it was rasterized from
Png(p, s, page, dpi) ==
    [kind |-> "png", path |-> PathStrs[p], mtime |-> s.mtime, size |-> s.size,
     page |-> page, dpi |-> dpi,
     bytes |-> PixWidth(DocPages(s.size)[page], dpi) * PixHeight(DocPages(s.size)[page], dpi)]

(***************************************************************************)
(* The metadata file.  Its text is a JSON object written by                *)
(* _save_cache_meta, or what a failed write or another program left there:  *)
(* a truncated text, a JSON array, bytes that are not UTF-8, a file that   *)
(* cannot be opened for reading.                                           *)
(***************************************************************************)
\* json.dump(meta, f, ...) of the dict built at lines 125-130
JsonDump(meta) == [form |-> "object", fields |-> meta]

\* what a write that fails part-way leaves: a prefix of the text
JsonTruncated == [form |-> "truncated"]
MetaBytes(text) ==
    CASE text.form = "object" -> 40 * Cardinality(DOMAIN text.fields)
      [] text.form = "truncated" -> 17
      [] text.form = "array" -> 2
      [] OTHER -> 64

MetaFile(text) == [kind |-> "meta", text |-> text, bytes |-> MetaBytes(text)]

\* open(meta_file, "r", encoding="utf-8") + json.load(f): the value or the exception
JsonLoad(text) ==
    CASE text.form = "object" -> [exc |-> "none", type |-> "dict", value |-> text.fields]
      [] text.form = "array" -> [exc |-> "none", type |-> "list", value |-> <<>>]
      [] text.form = "truncated" -> [exc |-> "JSONDecodeError"]
      [] text.form = "unreadable" -> [exc |-> "OSError"]
      [] OTHER -> [exc |-> "UnicodeDecodeError"]

\* meta.get(key) != current: a missing key gives None, which equals no number
GetDiffers(d, key, current) == ~(key \in DOMAIN d /\ d[key] = current)

(***************************************************************************)
(* A cache directory: absent, or its files by name.  writes counts, per    *)
(* file name, the writes since the directory was created.                  *)
(***************************************************************************)
NoDir == [exists |-> FALSE]
EmptyDir == [exists |-> TRUE, files |-> <<>>, writes |-> <<>>]

HasFile(dir, name) == dir.exists /\ name \in DOMAIN dir.files

Put(f, k, v) == [x \in (DOMAIN f) \cup {k} |-> IF x = k THEN v ELSE f[x]]

WriteFile(dir, name, file) ==
    [exists |-> TRUE,
     files |-> Put(dir.files, name, file),
     writes |-> Put(dir.writes, name,
                    IF name \notin DOMAIN dir.writes THEN 1
                    ELSE IF dir.writes[name] < WriteCap THEN dir.writes[name] + 1
                    ELSE WriteCap)]

(***************************************************************************)
(* Injected failures.  A fault names the library or system call that       *)
(* raises when the tool reaches it; "none" lets every call succeed.        *)
(***************************************************************************)
NoFault == [point |-> "none", page |-> 0]
ResolveFaults == { [point |-> pt, page |-> 0] : pt \in {"rmtree", "mkdir", "meta_open", "meta_dump"} }

FaultAt(fault, pt, page) == fault.point = pt /\ fault.page = page

(***************************************************************************)
(* _is_cache_valid, _invalidate_cache, _save_cache_meta, _get_cache_dir    *)
(***************************************************************************)
Returned(v) == [exc |-> "none", value |-> v]
Raised(e) == [exc |-> e]

IsCacheValidMtimeOnly(s, dir) ==
    IF ~HasFile(dir, CACHE_META_FILE) THEN Returned(FALSE)
    ELSE LET meta == JsonLoad(dir.files[CACHE_META_FILE].text) IN
         IF meta.exc /= "none" \/ meta.type /= "dict" THEN Returned(FALSE)
         ELSE Returned(~GetDiffers(meta.value, "pdf_mtime", s.mtime))

\* _is_cache_valid, lines 79-102
IsCacheValid(s, dir) ==
    IF ~HasFile(dir, CACHE_META_FILE) THEN Returned(FALSE)
    ELSE LET meta == JsonLoad(dir.files[CACHE_META_FILE].text) IN
         CASE meta.exc \in {"JSONDecodeError", "OSError"} -> Returned(FALSE)
           [] meta.exc = "UnicodeDecodeError" -> Raised("UnicodeDecodeError")
           [] ~s.exists -> Returned(FALSE)
           [] meta.type /= "dict" -> Raised("AttributeError")
           [] GetDiffers(meta.value, "pdf_mtime", s.mtime) -> Returned(FALSE)
           [] GetDiffers(meta.value, "pdf_size", s.size) -> Returned(FALSE)
           [] OTHER -> Returned(TRUE)

InvalidateCacheKeeps(dir, fault) == [exc |-> "none", dir |-> dir]
\* shutil.rmtree(cache_dir) when the directory exists
InvalidateCache(dir, fault) ==
    IF ~dir.exists THEN [exc |-> "none", dir |-> dir]
    ELSE IF fault.point = "rmtree" THEN [exc |-> "OSError", dir |-> dir]
    ELSE [exc |-> "none", dir |-> NoDir]

MetaRecord(p, s, t) ==
    [pdf_path |-> PathStrs[p], pdf_mtime |-> s.mtime, pdf_size |-> s.size, created_at |-> t]

SaveCacheMeta(p, s, dir, t, fault) ==
    CASE ~s.exists -> [exc |-> "FileNotFoundError", dir |-> dir]
      [] fault.point = "meta_open" -> [exc |-> "OSError", dir |-> dir]
      [] fault.point = "meta_dump" ->
            [exc |-> "OSError", dir |-> WriteFile(dir, CACHE_META_FILE, MetaFile(JsonTruncated))]
      [] OTHER ->
            [exc |-> "none",
             dir |-> WriteFile(dir, CACHE_META_FILE, MetaFile(JsonDump(MetaRecord(p, s, t))))]

MkdirNothing(dir, fault) == [exc |-> "none", dir |-> dir]
\* cache_dir.mkdir(exist_ok=True)
Mkdir(dir, fault) ==
    IF dir.exists THEN [exc |-> "none", dir |-> dir]
    ELSE IF fault.point = "mkdir" THEN [exc |-> "OSError", dir |-> dir]
    ELSE [exc |-> "none", dir |-> EmptyDir]

\* The result: the directory afterwards, the exception raised ("none" when it
\* returns), and what it did on the way.
GetCacheDirResult(exc, dir, invalidated, metaWritten) ==
    [exc |-> exc, dir |-> dir, invalidated |-> invalidated, metaWritten |-> metaWritten]

GetCacheDirAlwaysSave(p, s, dir, t, fault) ==
    LET valid == IF dir.exists THEN IsCacheValid(s, dir) ELSE Returned(TRUE) IN
    IF valid.exc /= "none" THEN GetCacheDirResult(valid.exc, dir, FALSE, FALSE)
    ELSE
    LET gone == IF valid.value THEN [exc |-> "none", dir |-> dir] ELSE InvalidateCache(dir, fault)
        invalidated == gone.dir /= dir
    IN
    IF gone.exc /= "none" THEN GetCacheDirResult(gone.exc, gone.dir, FALSE, FALSE)
    ELSE
    LET made == Mkdir(gone.dir, fault) IN
    IF made.exc /= "none" THEN GetCacheDirResult(made.exc, made.dir, invalidated, FALSE)
    ELSE LET saved == SaveCacheMeta(p, s, made.dir, t, fault) IN
         GetCacheDirResult(saved.exc, saved.dir, invalidated, saved.dir /= made.dir)

GetCacheDirNoCheck(p, s, dir, t, fault) ==
    LET made == Mkdir(dir, fault) IN
    IF made.exc /= "none" THEN GetCacheDirResult(made.exc, made.dir, FALSE, FALSE)
    ELSE IF HasFile(made.dir, CACHE_META_FILE)
    THEN GetCacheDirResult("none", made.dir, FALSE, FALSE)
    ELSE LET saved == SaveCacheMeta(p, s, made.dir, t, fault) IN
         GetCacheDirResult(saved.exc, saved.dir, FALSE, saved.dir /= made.dir)

\* _get_cache_dir, lines 145-163
GetCacheDir(p, s, dir, t, fault) ==
    LET valid == IF dir.exists THEN IsCacheValid(s, dir) ELSE Returned(TRUE) IN
    IF valid.exc /= "none" THEN GetCacheDirResult(valid.exc, dir, FALSE, FALSE)
    ELSE
    LET gone == IF valid.value THEN [exc |-> "none", dir |-> dir] ELSE InvalidateCache(dir, fault)
        invalidated == gone.dir /= dir
    IN
    IF gone.exc /= "none" THEN GetCacheDirResult(gone.exc, gone.dir, FALSE, FALSE)
    ELSE
    LET made == Mkdir(gone.dir, fault) IN
    IF made.exc /= "none" THEN GetCacheDirResult(made.exc, made.dir, invalidated, FALSE)
    ELSE IF HasFile(made.dir, CACHE_META_FILE)
    THEN GetCacheDirResult("none", made.dir, invalidated, FALSE)
    ELSE LET saved == SaveCacheMeta(p, s, made.dir, t, fault) IN
         GetCacheDirResult(saved.exc, saved.dir, invalidated, saved.dir /= made.dir)

(***************************************************************************)
(* The page range of read_pdf_text, read_pdf_all and read_pdf_smart.       *)
(* Python's truth test: None and 0 are false, every other integer true.    *)
(***************************************************************************)
Truthy(opt) == opt /= None /\ opt[1] /= 0
Min2(a, b) == IF a < b THEN a ELSE b
Max2(a, b) == IF a > b THEN a ELSE b

Range(lo, hi) == [lo |-> lo, hi |-> hi]

\* read_pdf_text, lines 343-349
ResolveText(total, start_page, end_page) ==
    LET start0 == IF Truthy(start_page) THEN start_page[1] - 1 ELSE 0
        end0 == IF Truthy(end_page) THEN end_page[1] ELSE total
        start == Max2(0, Min2(start0, total - 1))
    IN Range(start, Max2(start + 1, Min2(end0, total)))

ResolveAllUnclamped(total, start_page, end_page) ==
    LET start0 == IF Truthy(start_page) THEN start_page[1] - 1 ELSE 0
        end0 == IF Truthy(end_page) THEN end_page[1] ELSE total
        start == Max2(0, Min2(start0, total - 1))
    IN Range(start, Min2(end0, total))

\* read_pdf_all, lines 448-454
ResolveAll(total, start_page, end_page) ==
    LET start0 == IF Truthy(start_page) THEN start_page[1] - 1 ELSE 0
        end0 == IF Truthy(end_page) THEN end_page[1] ELSE total
        start == Max2(0, Min2(start0, total - 1))
    IN Range(start, Max2(start + 1, Min2(end0, total)))

\* read_pdf_smart, lines 513-519
ResolveSmart(total, start_page, end_page) ==
    LET start0 == IF Truthy(start_page) THEN start_page[1] - 1 ELSE 0
        end0 == IF Truthy(end_page) THEN end_page[1] ELSE total
        start == Max2(0, Min2(start0, total - 1))
    IN Range(start, Max2(start + 1, Min2(end0, total)))

(***************************************************************************)
(* What a tool call did: the record kept in `last`.                        *)
(***************************************************************************)
Blank(op, pathStr) ==
    [op |-> op, path |-> pathStr, outcome |-> "ok",
     page |-> 0, dpi |-> 0, dry |-> FALSE,
     total |-> 0, lo |-> 0, hi |-> 0,
     emitted |-> <<>>, textCount |-> 0, imageCount |-> 0, summary |-> <<>>,
     retPath |-> "", dims |-> "", rasterized |-> {}, hits |-> {},
     opened |-> 0, closed |-> 0,
     cacheWas |-> "-", resolved |-> FALSE, invalidated |-> FALSE, metaWritten |-> FALSE,
     found |-> FALSE, fileCount |-> 0, totalSize |-> 0, sizeText |-> 0]

\* a tool's progress: the cache directory and the record so far
Step(dir, res) == [dir |-> dir, res |-> res]
Raise(st, e) == Step(st.dir, [st.res EXCEPT !.outcome = e])
Failed(st) == st.res.outcome /= "ok"

LoadPdfNoExistsTest(s, res, fault) ==
    IF ~s.exists \/ fault.point = "open" THEN [res EXCEPT !.outcome = "FileDataError"]
    ELSE [res EXCEPT !.opened = @ + 1, !.total = Len(DocPages(s.size))]

\* _load_pdf: the existence test, then fitz.open
LoadPdf(s, res, fault) ==
    IF ~s.exists THEN [res EXCEPT !.outcome = "FileNotFoundError"]
    ELSE IF fault.point = "open" THEN [res EXCEPT !.outcome = "FileDataError"]
    ELSE [res EXCEPT !.opened = @ + 1, !.total = Len(DocPages(s.size))]

FinallyCloseOnSuccess(st) ==
    IF st.res.outcome = "ok" THEN Step(st.dir, [st.res EXCEPT !.closed = @ + 1]) ELSE st
\* finally: doc.close()
FinallyClose(st) == Step(st.dir, [st.res EXCEPT !.closed = @ + 1])

\* What a cache resolution finds: no directory, no metadata file, a record
\* that matches the source, one that does not, or something unusable.
MetaStatus(s, dir) ==
    IF ~dir.exists THEN "nodir"
    ELSE IF CACHE_META_FILE \notin DOMAIN dir.files THEN "nometa"
    ELSE LET text == dir.files[CACHE_META_FILE].text IN
         IF text.form /= "object" \/ ~({"pdf_mtime", "pdf_size"} \subseteq DOMAIN text.fields)
         THEN "corrupt"
         ELSE IF s.exists /\ text.fields.pdf_mtime = s.mtime /\ text.fields.pdf_size = s.size
         THEN "valid"
         ELSE "stale"

\* cache_dir = _get_cache_dir(path) inside a tool
Resolve(p, s, st, t, fault) ==
    LET Record(r) ==
            Step(r.dir, [st.res EXCEPT !.outcome = IF r.exc = "none" THEN "ok" ELSE r.exc,
                                       !.cacheWas = MetaStatus(s, st.dir),
                                       !.resolved = (r.exc = "none"),
                                       !.invalidated = r.invalidated,
                                       !.metaWritten = r.metaWritten])
    IN Record(GetCacheDir(p, s, st.dir, t, fault))

(***************************************************************************)
(* Rendering a page into the cache directory.                              *)
(***************************************************************************)
Emit(st, item) == Step(st.dir, [st.res EXCEPT !.emitted = Append(@, item)])

\* page.get_pixmap(matrix) then pixmap.save(str(image_path))
Rasterize(p, s, st, name, page, dpi, fault) ==
    IF FaultAt(fault, "pixmap", page) THEN Raise(st, "RuntimeError")
    ELSE IF ~st.dir.exists THEN Raise(st, "OSError")
    ELSE Step(WriteFile(st.dir, name, Png(p, s, page, dpi)),
              [st.res EXCEPT !.rasterized = @ \cup {name}])

EnsureDefaultArtifactAlways(p, s, st, page, fault) ==
    Rasterize(p, s, st, DefaultNames[page], page, DefaultDpi, fault)

\* "if not image_path.exists(): pixmap = ...; pixmap.save(...)" of read_pdf_page,
\* read_pdf_all and read_pdf_smart: the 150 dpi render under the default name
EnsureDefaultArtifact(p, s, st, page, fault) ==
    LET name == DefaultNames[page] IN
    IF HasFile(st.dir, name) THEN Step(st.dir, [st.res EXCEPT !.hits = @ \cup {name}])
    ELSE Rasterize(p, s, st, name, page, DefaultDpi, fault)

\* with open(image_path, "rb") as f: base64 of f.read()
ReadArtifact(st, name, page, fault) ==
    IF FaultAt(fault, "read", page) THEN Raise(st, "OSError")
    ELSE IF ~HasFile(st.dir, name) THEN Raise(st, "FileNotFoundError")
    ELSE Emit(st, [page |-> page, kind |-> "image", name |-> name,
                   image |-> st.dir.files[name]])

(***************************************************************************)
(* read_pdf_info                                                           *)
(***************************************************************************)
RECURSIVE InfoLoop(_, _, _, _, _)
InfoLoop(s, st, k, hi, fault) ==
    IF k >= hi THEN st
    ELSE IF FaultAt(fault, "text", k + 1) THEN Raise(st, "RuntimeError")
    ELSE LET pg == DocPages(s.size)[k + 1] IN
         InfoLoop(s, Emit(st, [page |-> k + 1, kind |-> "summary",
                               images |-> pg.images, drawings |-> pg.drawings]),
                  k + 1, hi, fault)

ReadPdfInfo(p, s, dir, t, fault) ==
    LET res == LoadPdf(s, Blank("info", PathStrs[p]), fault) IN
    IF res.outcome /= "ok" THEN Step(dir, res)
    ELSE FinallyClose(InfoLoop(s, Step(dir, res), 0, Min2(res.total, MaxSummaryPages), fault))

(***************************************************************************)
(* read_pdf_text                                                           *)
(***************************************************************************)
RECURSIVE TextLoop(_, _, _, _, _)
TextLoop(s, st, k, hi, fault) ==
    IF k >= hi THEN st
    ELSE IF k >= st.res.total THEN Raise(st, "IndexError")
    ELSE IF FaultAt(fault, "text", k + 1) THEN Raise(st, "RuntimeError")
    ELSE TextLoop(s, Emit(st, [page |-> k + 1, kind |-> "text",
                               text |-> DocPages(s.size)[k + 1].text]),
                  k + 1, hi, fault)

ReadPdfText(p, start_page, end_page, s, dir, t, fault) ==
    LET res == LoadPdf(s, Blank("text", PathStrs[p]), fault) IN
    IF res.outcome /= "ok" THEN Step(dir, res)
    ELSE LET r == ResolveText(res.total, start_page, end_page) IN
         FinallyClose(TextLoop(s, Step(dir, [res EXCEPT !.lo = r.lo, !.hi = r.hi]),
                               r.lo, r.hi, fault))

(***************************************************************************)
(* read_pdf_page                                                           *)
(***************************************************************************)
ReadPdfPageBodyResolveFirst(p, page_number, s, st, t, fault) ==
    LET got == Resolve(p, s, st, t, fault) IN
    IF Failed(got) THEN got
    ELSE IF page_number < 1 \/ page_number > st.res.total THEN Raise(got, "ValueError")
    ELSE LET have == EnsureDefaultArtifact(p, s, got, page_number, fault) IN
         IF Failed(have) THEN have
         ELSE ReadArtifact(have, DefaultNames[page_number], page_number, fault)

ReadPdfPageBody(p, page_number, s, st, t, fault) ==
    IF page_number < 1 \/ page_number > st.res.total THEN Raise(st, "ValueError")
    ELSE LET got == Resolve(p, s, st, t, fault) IN
         IF Failed(got) THEN got
         ELSE LET have == EnsureDefaultArtifact(p, s, got, page_number, fault) IN
              IF Failed(have) THEN have
              ELSE ReadArtifact(have, DefaultNames[page_number], page_number, fault)

ReadPdfPage(p, page_number, s, dir, t, fault) ==
    LET res == LoadPdf(s, [Blank("page", PathStrs[p]) EXCEPT !.page = page_number], fault) IN
    IF res.outcome /= "ok" THEN Step(dir, res)
    ELSE FinallyClose(ReadPdfPageBody(p, page_number, s, Step(dir, res), t, fault))

(***************************************************************************)
(* read_pdf_all                                                            *)
(***************************************************************************)
RECURSIVE AllLoopSkipsFailed(_, _, _, _, _, _)
AllLoopSkipsFailed(p, s, st, k, hi, fault) ==
    IF k >= hi THEN st
    ELSE LET have == EnsureDefaultArtifact(p, s, st, k + 1, fault)
             read == ReadArtifact(have, DefaultNames[k + 1], k + 1, fault)
         IN
         IF Failed(have) THEN AllLoopSkipsFailed(p, s, st, k + 1, hi, fault)
         ELSE IF Failed(read) THEN AllLoopSkipsFailed(p, s, have, k + 1, hi, fault)
         ELSE AllLoopSkipsFailed(p, s, read, k + 1, hi, fault)

RECURSIVE AllLoop(_, _, _, _, _, _)
AllLoop(p, s, st, k, hi, fault) ==
    IF k >= hi THEN st
    ELSE IF k >= st.res.total THEN Raise(st, "IndexError")
    ELSE LET have == EnsureDefaultArtifact(p, s, st, k + 1, fault) IN
         IF Failed(have) THEN have
         ELSE LET read == ReadArtifact(have, DefaultNames[k + 1], k + 1, fault) IN
              IF Failed(read) THEN read
              ELSE AllLoop(p, s, read, k + 1, hi, fault)

ReadPdfAllBodyNoResolve(p, start_page, end_page, s, st, t, fault) ==
    LET r == ResolveAll(st.res.total, start_page, end_page) IN
    AllLoop(p, s, Step(st.dir, [st.res EXCEPT !.lo = r.lo, !.hi = r.hi]), r.lo, r.hi, fault)

ReadPdfAllBody(p, start_page, end_page, s, st, t, fault) ==
    LET got == Resolve(p, s, st, t, fault) IN
    IF Failed(got) THEN got
    ELSE LET r == ResolveAll(got.res.total, start_page, end_page) IN
         AllLoop(p, s, Step(got.dir, [got.res EXCEPT !.lo = r.lo, !.hi = r.hi]),
                 r.lo, r.hi, fault)

ReadPdfAll(p, start_page, end_page, s, dir, t, fault) ==
    LET res == LoadPdf(s, Blank("all", PathStrs[p]), fault) IN
    IF res.outcome /= "ok" THEN Step(dir, res)
    ELSE FinallyClose(ReadPdfAllBody(p, start_page, end_page, s, Step(dir, res), t, fault))

(***************************************************************************)
(* read_pdf_smart                                                          *)
(***************************************************************************)
IsVisualImagesOnly(pg) == pg.images > 0
\* has_images or has_drawings
IsVisual(pg) == pg.images > 0 \/ pg.drawings > 0

RECURSIVE SmartLoop(_, _, _, _, _, _)
SmartLoop(p, s, st, k, hi, fault) ==
    IF k >= hi THEN st
    ELSE IF k >= st.res.total THEN Raise(st, "IndexError")
    ELSE IF FaultAt(fault, "text", k + 1) THEN Raise(st, "RuntimeError")
    ELSE IF IsVisual(DocPages(s.size)[k + 1])
    THEN LET counted == Step(st.dir, [st.res EXCEPT !.imageCount = @ + 1])
             have == EnsureDefaultArtifact(p, s, counted, k + 1, fault)
         IN
         IF Failed(have) THEN have
         ELSE LET read == ReadArtifact(have, DefaultNames[k + 1], k + 1, fault) IN
              IF Failed(read) THEN read
              ELSE SmartLoop(p, s, read, k + 1, hi, fault)
    ELSE SmartLoop(p, s,
                   Emit(Step(st.dir, [st.res EXCEPT !.textCount = @ + 1]),
                        [page |-> k + 1, kind |-> "text",
                         text |-> DocPages(s.size)[k + 1].text]),
                   k + 1, hi, fault)

ReadPdfSmartBody(p, start_page, end_page, s, st, t, fault) ==
    LET Summarize(done) ==
            IF Failed(done) THEN done
            ELSE Step(done.dir,
                      [done.res EXCEPT !.summary = <<done.res.textCount, done.res.imageCount>>])
        Pages(got, r) ==
            Summarize(SmartLoop(p, s, Step(got.dir, [got.res EXCEPT !.lo = r.lo, !.hi = r.hi]),
                                r.lo, r.hi, fault))
        Body(got) ==
            IF Failed(got) THEN got
            ELSE Pages(got, ResolveSmart(got.res.total, start_page, end_page))
    IN Body(Resolve(p, s, st, t, fault))

ReadPdfSmart(p, start_page, end_page, s, dir, t, fault) ==
    LET res == LoadPdf(s, Blank("smart", PathStrs[p]), fault) IN
    IF res.outcome /= "ok" THEN Step(dir, res)
    ELSE FinallyClose(ReadPdfSmartBody(p, start_page, end_page, s, Step(dir, res), t, fault))

(***************************************************************************)
(* render_pdf_page                                                         *)
(***************************************************************************)
\* f"{width} x {height}" of the result: the pixel size, or the two words of
\* the cache-hit branch
DimsText(width, height) == width \o " x " \o height
CacheDims == DimsText("cache", "used")
PixDims(pg, dpi) == DimsText(IntStr(PixWidth(pg, dpi)), IntStr(PixHeight(pg, dpi)))
\* the pixel sizes, computed once per document, page and resolution
PixDimsOf ==
    [size \in SrcSizes, page \in PageNumbers, dpi \in Dpis |->
        PixDims(DocPages(size)[page], dpi)]

RenderOrReuseOverwrite(p, s, st, page_number, dpi, fault) ==
    LET name == DpiNames[page_number, dpi]
        drawn == Rasterize(p, s, st, name, page_number, dpi, fault)
    IN
    IF Failed(drawn) THEN drawn
    ELSE Step(drawn.dir, [drawn.res EXCEPT !.dims = PixDimsOf[s.size, page_number, dpi],
                                           !.retPath = DirOf[p] \o "/" \o name])

RenderOrReuseRealDims(p, s, st, page_number, dpi, fault) ==
    LET name == DpiNames[page_number, dpi]
        drawn == IF HasFile(st.dir, name)
                 THEN Step(st.dir, [st.res EXCEPT !.hits = @ \cup {name}])
                 ELSE Rasterize(p, s, st, name, page_number, dpi, fault)
    IN
    IF Failed(drawn) THEN drawn
    ELSE Step(drawn.dir, [drawn.res EXCEPT !.dims = PixDimsOf[s.size, page_number, dpi],
                                           !.retPath = DirOf[p] \o "/" \o name])

\* lines 603-616: the artifact name, the render when it is absent, the dimensions
RenderOrReuse(p, s, st, page_number, dpi, fault) ==
    LET name == DpiNames[page_number, dpi]
    IN
    IF ~HasFile(st.dir, name)
    THEN LET drawn == Rasterize(p, s, st, name, page_number, dpi, fault) IN
         IF Failed(drawn) THEN drawn
         ELSE Step(drawn.dir,
                   [drawn.res EXCEPT !.dims = PixDimsOf[s.size, page_number, dpi],
                                     !.retPath = DirOf[p] \o "/" \o name])
    ELSE Step(st.dir, [st.res EXCEPT !.hits = @ \cup {name}, !.dims = CacheDims,
                                     !.retPath = DirOf[p] \o "/" \o name])

RenderPdfPageBody(p, page_number, dpi, s, st, t, fault) ==
    IF page_number < 1 \/ page_number > st.res.total THEN Raise(st, "ValueError")
    ELSE LET got == Resolve(p, s, st, t, fault) IN
         IF Failed(got) THEN got
         ELSE RenderOrReuse(p, s, got, page_number, dpi, fault)

RenderPdfPage(p, page_number, dpi, s, dir, t, fault) ==
    LET res == LoadPdf(s, [Blank("render", PathStrs[p]) EXCEPT !.page = page_number, !.dpi = dpi],
                       fault)
    IN
    IF res.outcome /= "ok" THEN Step(dir, res)
    ELSE FinallyClose(RenderPdfPageBody(p, page_number, dpi, s, Step(dir, res), t, fault))

(***************************************************************************)
(* clear_pdf_cache                                                         *)
(***************************************************************************)
RECURSIVE SumBytes(_, _)
SumBytes(files, names) ==
    IF names = {} THEN 0
    ELSE LET n == CHOOSE x \in names : TRUE IN files[n].bytes + SumBytes(files, names \ {n})

\* f"{size_mb:.2f}": hundredths of a megabyte, rounded to the nearest
SizeText(total_size) == (200 * total_size + BytesPerMB) \div (2 * BytesPerMB)

ClearPdfCacheSkipsMeta(p, dry_run, s, dir, fault) ==
    LET res == [Blank("clear", PathStrs[p]) EXCEPT !.dry = dry_run] IN
    IF ~s.exists THEN Step(dir, [res EXCEPT !.outcome = "FileNotFoundError"])
    ELSE IF ~dir.exists THEN Step(dir, res)
    ELSE LET listed == IF dry_run THEN DOMAIN dir.files \ {CACHE_META_FILE}
                       ELSE DOMAIN dir.files
             report == [res EXCEPT !.found = TRUE, !.fileCount = Cardinality(listed),
                                   !.totalSize = SumBytes(dir.files, listed),
                                   !.sizeText = SizeText(SumBytes(dir.files, listed))]
         IN
         IF dry_run THEN Step(dir, report)
         ELSE IF fault.point = "rmtree" THEN Step(dir, [report EXCEPT !.outcome = "OSError"])
         ELSE Step(NoDir, report)

ClearPdfCacheKeepsDir(p, dry_run, s, dir, fault) ==
    LET res == [Blank("clear", PathStrs[p]) EXCEPT !.dry = dry_run] IN
    IF ~s.exists THEN Step(dir, [res EXCEPT !.outcome = "FileNotFoundError"])
    ELSE IF ~dir.exists THEN Step(dir, res)
    ELSE LET file_count == Cardinality(DOMAIN dir.files)
             total_size == SumBytes(dir.files, DOMAIN dir.files)
             report == [res EXCEPT !.found = TRUE, !.fileCount = file_count,
                                   !.totalSize = total_size, !.sizeText = SizeText(total_size)]
         IN
         IF dry_run THEN Step(dir, report)
         ELSE IF fault.point = "rmtree" THEN Step(dir, [report EXCEPT !.outcome = "OSError"])
         ELSE Step(EmptyDir, report)

\* clear_pdf_cache, lines 755-798
ClearPdfCache(p, dry_run, s, dir, fault) ==
    LET res == [Blank("clear", PathStrs[p]) EXCEPT !.dry = dry_run] IN
    IF ~s.exists THEN Step(dir, [res EXCEPT !.outcome = "FileNotFoundError"])
    ELSE IF ~dir.exists THEN Step(dir, res)
    ELSE LET file_count == Cardinality(DOMAIN dir.files)
             total_size == SumBytes(dir.files, DOMAIN dir.files)
             report == [res EXCEPT !.found = TRUE, !.fileCount = file_count,
                                   !.totalSize = total_size, !.sizeText = SizeText(total_size)]
         IN
         IF dry_run THEN Step(dir, report)
         ELSE IF fault.point = "rmtree" THEN Step(dir, [report EXCEPT !.outcome = "OSError"])
         ELSE Step(NoDir, report)

(***************************************************************************)
(* read_pdf_marker: the existence test, then the Marker conversion, which  *)
(* reads the document itself and uses no cache directory.                  *)
(***************************************************************************)
ReadPdfMarker(p, s, dir, fault) ==
    LET res == Blank("marker", PathStrs[p]) IN
    IF ~s.exists THEN Step(dir, [res EXCEPT !.outcome = "FileNotFoundError"])
    ELSE IF fault.point = "open" THEN Step(dir, [res EXCEPT !.outcome = "FileDataError"])
    ELSE Step(dir, [res EXCEPT !.total = Len(DocPages(s.size))])

(***************************************************************************)
(* State.                                                                  *)
(*   src     : path -> the source file (absent, or its mtime and size)     *)
(*   cache   : cache directory path -> the directory                       *)
(*   now     : the clock (datetime.now(), and the mtime of a written file) *)
(*   handles : the number of documents open                                *)
(*   last    : what the last call did and returned                         *)
(*   rng     : RangeSpec's input and result                                *)
(*   proc    : RaceSpec's concurrent calls: per process, where it is in    *)
(*             its call                                                    *)
(***************************************************************************)
VARIABLES src, cache, now, handles, last, rng, proc

vars == <<src, cache, now, handles, last, rng, proc>>

\* the processes of RaceSpec, and a process that is between calls
Procs == {1, 2}
Idle == [pc |-> "idle", op |-> "-", calls |-> 0, lost |-> FALSE, error |-> "-", at |-> "-",
         doc |-> NoFile]

PageInputs == 0..(Len(DocPages(1000)) + 1)
RenderPageInputs == {0, 1, Len(DocPages(1000)) + 1}
\* (start_page, end_page) of the range tools in Spec
RangeInputs == { <<None, None>>, <<Some(2), None>> }

RangeInit == [total |-> 1, start |-> None, end |-> None, got |-> <<>>]

Init ==
    /\ src = [p \in Paths |-> NoFile]
    /\ cache = [d \in CacheDirs |-> NoDir]
    /\ now = 0
    /\ handles = 0
    /\ last = Blank("init", "")
    /\ rng = RangeInit
    /\ proc = [i \in Procs |-> Idle]

Env == Blank("env", "")

\* a tool call ends: its effect on the cache directory, the handles and `last`
Finish(p, st) ==
    /\ cache' = [cache EXCEPT ![DirOf[p]] = st.dir]
    /\ handles' = handles + st.res.opened - st.res.closed
    /\ last' = st.res
    /\ UNCHANGED <<src, now, rng, proc>>

(***************************************************************************)
(* The environment: time passes, a document is written or removed.         *)
(***************************************************************************)
Tick ==
    /\ now < MaxClock
    /\ now' = now + 1
    /\ last' = Env
    /\ UNCHANGED <<src, cache, handles, rng, proc>>

WriteSource(p, size) ==
    /\ src' = [src EXCEPT ![p] = SrcFile(now, size)]
    /\ last' = Env
    /\ UNCHANGED <<cache, now, handles, rng, proc>>

DeleteSource(p) ==
    /\ src[p].exists
    /\ src' = [src EXCEPT ![p] = NoFile]
    /\ last' = Env
    /\ UNCHANGED <<cache, now, handles, rng, proc>>

(***************************************************************************)
(* The tools.                                                              *)
(***************************************************************************)
(***************************************************************************)
(* The failures tried on each call.                                        *)
(***************************************************************************)
OpenFault == [point |-> "open", page |-> 0]
RmtreeFault == [point |-> "rmtree", page |-> 0]
At(pt, k) == [point |-> pt, page |-> k]

InfoFaults == {NoFault, At("text", 1)}
TextFaults == {NoFault, At("text", 2)}
\* read_pdf_page: every failure on page 1, the page's own on the others, none
\* on a page number the tool rejects
PageCallFaults(n) ==
    CASE n = 1 -> {NoFault, OpenFault, At("pixmap", 1), At("read", 1)} \cup ResolveFaults
      [] n \in PageNumbers -> {NoFault, At("pixmap", n), At("read", n)}
      [] OTHER -> {NoFault}
AllFaults == {NoFault, RmtreeFault, At("pixmap", 2), At("read", 1)}
SmartFaults == {NoFault, At("text", 2), At("pixmap", 2), At("read", 2)}
RenderCallFaults(n) ==
    IF n \in PageNumbers THEN {NoFault, RmtreeFault, At("pixmap", n)} ELSE {NoFault}

CallInfo(p, fault) ==
    \E st \in {ReadPdfInfo(p, src[p], cache[DirOf[p]], now, fault)} : Finish(p, st)

CallText(p, a, b, fault) ==
    \E st \in {ReadPdfText(p, a, b, src[p], cache[DirOf[p]], now, fault)} : Finish(p, st)

CallPage(p, n, fault) ==
    \E st \in {ReadPdfPage(p, n, src[p], cache[DirOf[p]], now, fault)} : Finish(p, st)

CallAll(p, a, b, fault) ==
    \E st \in {ReadPdfAll(p, a, b, src[p], cache[DirOf[p]], now, fault)} : Finish(p, st)

CallSmart(p, a, b, fault) ==
    \E st \in {ReadPdfSmart(p, a, b, src[p], cache[DirOf[p]], now, fault)} : Finish(p, st)

CallRender(p, n, dpi, fault) ==
    \E st \in {RenderPdfPage(p, n, dpi, src[p], cache[DirOf[p]], now, fault)} : Finish(p, st)

CallClear(p, dry, fault) ==
    \E st \in {ClearPdfCache(p, dry, src[p], cache[DirOf[p]], fault)} : Finish(p, st)

CallMarker(p, fault) ==
    \E st \in {ReadPdfMarker(p, src[p], cache[DirOf[p]], fault)} : Finish(p, st)

Next ==
    \/ Tick
    \/ \E p \in ActivePaths, size \in SrcSizes : WriteSource(p, size)
    \/ \E p \in ActivePaths : DeleteSource(p)
    \/ \E p \in ActivePaths, fault \in InfoFaults : CallInfo(p, fault)
    \/ \E p \in ActivePaths, ab \in RangeInputs, fault \in TextFaults :
            CallText(p, ab[1], ab[2], fault)
    \/ \E p \in ActivePaths, n \in PageInputs :
            \E fault \in PageCallFaults(n) : CallPage(p, n, fault)
    \/ \E p \in ActivePaths, ab \in RangeInputs, fault \in AllFaults :
            CallAll(p, ab[1], ab[2], fault)
    \/ \E p \in ActivePaths, ab \in RangeInputs, fault \in SmartFaults :
            CallSmart(p, ab[1], ab[2], fault)
    \/ \E p \in ActivePaths, n \in RenderPageInputs, dpi \in Dpis :
            \E fault \in RenderCallFaults(n) : CallRender(p, n, dpi, fault)
    \/ \E p \in ActivePaths, dry \in BOOLEAN, fault \in {NoFault, RmtreeFault} :
            CallClear(p, dry, fault)
    \/ \E p \in ActivePaths : CallMarker(p, NoFault)

Spec == Init /\ [][Next]_vars

(***************************************************************************)
(* RangeSpec: the range computation of the three range tools on a document *)
(* of rng.total pages, called with rng.start and rng.end.  rng.got maps    *)
(* each tool applied so far to the range it computed.                      *)
(***************************************************************************)
OptInputs == {None} \cup {Some(n) : n \in (0 - RangeSlack)..(MaxTotal + RangeSlack)}

\* range(start, end): the page indices the loop visits
Visited(r) == r.lo..(r.hi - 1)

RangeSpecInit ==
    /\ src = [p \in Paths |-> NoFile]
    /\ cache = [d \in CacheDirs |-> NoDir]
    /\ now = 0
    /\ handles = 0
    /\ last = Blank("init", "")
    /\ rng \in [total : 0..MaxTotal, start : OptInputs, end : OptInputs, got : {<<>>}]
    /\ proc = [i \in Procs |-> Idle]

ApplyRange(tool, r) ==
    /\ tool \notin DOMAIN rng.got
    /\ rng' = [rng EXCEPT !.got = Put(@, tool, r)]
    /\ UNCHANGED <<src, cache, now, handles, last, proc>>

RangeOfText == ApplyRange("text", ResolveText(rng.total, rng.start, rng.end))
RangeOfAll == ApplyRange("all", ResolveAll(rng.total, rng.start, rng.end))
RangeOfSmart == ApplyRange("smart", ResolveSmart(rng.total, rng.start, rng.end))

RangeNext == RangeOfText \/ RangeOfAll \/ RangeOfSmart

RangeSpec == RangeSpecInit /\ [][RangeNext]_vars

(***************************************************************************)
(* The page range (RangeSpec).                                             *)
(***************************************************************************)
\* The range the specification gives: an absent start is page 1, an absent
\* end is the last page, startIndex = max(0, min(start-1, total-1)),
\* endIndexExclusive = max(startIndex+1, min(end, total)).
RefRange(total, start, end) ==
    LET sv == IF start = None THEN 1 ELSE start[1]
        ev == IF end = None THEN total ELSE end[1]
        lo == Max2(0, Min2(sv - 1, total - 1))
    IN Range(lo, Max2(lo + 1, Min2(ev, total)))

\* C5: on a document of at least one page, for every start and end (absent
\* or any integer), each of read_pdf_text, read_pdf_all and read_pdf_smart
\* computes the reference range, and so all three compute the same range.
C5_RangeIsReference ==
    rng.total >= 1 =>
        \A tool \in DOMAIN rng.got : rng.got[tool] = RefRange(rng.total, rng.start, rng.end)

InsideDocument(r, total) ==
    /\ 0 <= r.lo /\ r.lo < r.hi /\ r.hi <= total
    /\ \A i \in Visited(r) : 0 <= i /\ i < total

\* C6 as stated: for every document length and every start and end, the
\* range is non-empty and inside the document, and every page index the
\* loop visits is a page of the document.
C6_InsideEveryDocument ==
    \A tool \in DOMAIN rng.got : InsideDocument(rng.got[tool], rng.total)

\* C6, amended: the same for every document of at least one page.
C6_InsideNonEmptyDocument ==
    rng.total >= 1 => \A tool \in DOMAIN rng.got : InsideDocument(rng.got[tool], rng.total)

\* C6 witness: the three tools have computed a range for start > end, with
\* the start beyond the last page of a document of several pages.
C6_Witness ==
    /\ rng.total >= 2
    /\ rng.start /= None /\ rng.end /= None
    /\ rng.start[1] > rng.total /\ rng.end[1] < rng.start[1]
    /\ DOMAIN rng.got = {"text", "all", "smart"}

(***************************************************************************)
(* The cache (Spec).  In a step of Spec that is a tool call, last' is the  *)
(* record of the call, and src, cache and now are the state it ran in.     *)
(***************************************************************************)
ResolvingTools == {"page", "all", "smart", "render"}

\* the step is a call on p whose cache resolution returned
ResolvedFor(p) ==
    /\ last'.op \in ResolvingTools
    /\ last'.path = PathStrs[p]
    /\ last'.resolved

FilesOf(dir) == IF dir.exists THEN DOMAIN dir.files ELSE {}
ArtifactsOf(dir) == FilesOf(dir) \ {CACHE_META_FILE}

\* every file of `before` is in `after` with the same content and write count
KeptAll(before, after) ==
    /\ after.exists
    /\ \A name \in FilesOf(before) :
          /\ name \in FilesOf(after)
          /\ after.files[name] = before.files[name]
          /\ name \in DOMAIN before.writes =>
                (name \in DOMAIN after.writes /\ after.writes[name] = before.writes[name])

\* C1: a cache resolution on a directory whose metadata record matches the
\* source's mtime and size deletes nothing and rewrites nothing: it neither
\* invalidates nor writes the metadata, every file is kept with its content
\* (the metadata with its created_at), and the only new files are the
\* artifacts the call rendered after it.
C1_ResolutionIdempotent ==
    [][ \A p \in ActivePaths :
          (ResolvedFor(p) /\ MetaStatus(src[p], cache[DirOf[p]]) = "valid") =>
             /\ ~last'.invalidated
             /\ ~last'.metaWritten
             /\ KeptAll(cache[DirOf[p]], cache'[DirOf[p]])
             /\ FilesOf(cache'[DirOf[p]]) \ FilesOf(cache[DirOf[p]]) = last'.rasterized
      ]_vars

\* C1 witness: a call found a valid cache holding artifacts, at a time
\* later than the one the metadata was created at.
C1_Witness ==
    /\ last.op \in ResolvingTools /\ last.resolved /\ last.cacheWas = "valid"
    /\ last.hits /= {}
    /\ \E p \in ActivePaths :
          /\ last.path = PathStrs[p]
          /\ cache[DirOf[p]].files[CACHE_META_FILE].text.fields.created_at < now

\* C2: a cache resolution that finds a metadata record whose mtime or size
\* differs from the source's deletes the whole directory and recreates it
\* with a new metadata record of the source's current mtime and size: after
\* the call the directory holds that record and the artifacts the call
\* rendered, and nothing else.
C2_StaleCacheRegenerated ==
    [][ \A p \in ActivePaths :
          (ResolvedFor(p) /\ MetaStatus(src[p], cache[DirOf[p]]) = "stale") =>
             /\ last'.invalidated
             /\ last'.metaWritten
             /\ cache'[DirOf[p]].exists
             /\ CACHE_META_FILE \in FilesOf(cache'[DirOf[p]])
             /\ cache'[DirOf[p]].files[CACHE_META_FILE]
                    = MetaFile(JsonDump(MetaRecord(p, src[p], now)))
             /\ ArtifactsOf(cache'[DirOf[p]]) = last'.rasterized
             /\ \A name \in last'.rasterized :
                    /\ cache'[DirOf[p]].files[name].mtime = src[p].mtime
                    /\ cache'[DirOf[p]].files[name].size = src[p].size
      ]_vars

\* C2 witness: a render found a stale cache and left the metadata and its
\* own artifact.
C2_Witness ==
    /\ last.op = "render" /\ last.resolved /\ last.cacheWas = "stale" /\ last.invalidated
    /\ \E p \in ActivePaths :
          /\ last.path = PathStrs[p]
          /\ FilesOf(cache[DirOf[p]]) = {CACHE_META_FILE} \cup last.rasterized

SameRenderTwice ==
    /\ last.op = "render" /\ last.outcome = "ok"
    /\ last'.op = "render" /\ last'.outcome = "ok"
    /\ last'.path = last.path /\ last'.page = last.page /\ last'.dpi = last.dpi

\* C3: a render called twice in a row returns the same path and the second
\* call rasterizes nothing and leaves the cache as it is; a render never
\* writes an artifact that exists under its name; and no artifact is written
\* more than once while its directory lives.
C3_RenderAtMostOnce ==
    /\ [][ SameRenderTwice =>
              /\ last'.retPath = last.retPath
              /\ last'.rasterized = {}
              /\ cache' = cache
         ]_vars
    /\ [][ \A p \in ActivePaths :
              (last'.op = "render" /\ last'.path = PathStrs[p] /\ ~last'.invalidated) =>
                  last'.rasterized \cap FilesOf(cache[DirOf[p]]) = {}
         ]_vars
    /\ [] \A d \in CacheDirs :
              \A name \in ArtifactsOf(cache[d]) :
                  name \in DOMAIN cache[d].writes => cache[d].writes[name] <= 1

\* C3 witness: a render returned an artifact that was already there.
C3_Witness ==
    /\ last.op = "render" /\ last.outcome = "ok"
    /\ last.hits /= {} /\ last.rasterized = {} /\ last.dims = CacheDims

\* the pages and resolutions the names are compared on
NamePages == {1, 2, 9, 10, 11, 99, 100, 101, 999, 1000, 1001, 1150}
NameDpis == {1, 15, 50, 72, 150, 300, 1150, 1500}

NamesInjective ==
    /\ \A a, b \in NamePages \X NameDpis :
          DpiArtifactName(a[1], a[2]) = DpiArtifactName(b[1], b[2]) => a = b
    /\ \A a \in NamePages \X NameDpis, n \in NamePages :
          DpiArtifactName(a[1], a[2]) /= DefaultArtifactName(n)

\* C4: the artifact name is an injective function of (page, dpi); a
\* successful render leaves its artifact in the directory and, unless the
\* cache was invalidated, every other file as it was; after renders of one
\* page at two resolutions in a row both artifacts are there under two names.
C4_ResolutionKeyed ==
    /\ [] NamesInjective
    /\ [][ \A p \in ActivePaths :
              (last'.op = "render" /\ last'.path = PathStrs[p] /\ last'.outcome = "ok") =>
                 /\ DpiArtifactName(last'.page, last'.dpi) \in FilesOf(cache'[DirOf[p]])
                 /\ last'.retPath = DirOf[p] \o "/" \o DpiArtifactName(last'.page, last'.dpi)
                 /\ ~last'.invalidated => KeptAll(cache[DirOf[p]], cache'[DirOf[p]])
                 /\ (/\ last.op = "render" /\ last.outcome = "ok" /\ last.path = last'.path
                     /\ last.page = last'.page /\ last.dpi /= last'.dpi) =>
                        /\ last.retPath /= last'.retPath
                        /\ {DpiArtifactName(last.page, last.dpi),
                            DpiArtifactName(last'.page, last'.dpi)}
                               \subseteq FilesOf(cache'[DirOf[p]])
                        /\ KeptAll(cache[DirOf[p]], cache'[DirOf[p]])
         ]_vars

\* C4 witness: a render at one resolution found the cache holding the same
\* page at the other resolution, and added its own artifact.
C4_Witness ==
    /\ last.op = "render" /\ last.outcome = "ok" /\ last.rasterized /= {}
    /\ \E p \in ActivePaths, other \in Dpis \ {last.dpi} :
          /\ last.path = PathStrs[p]
          /\ {DpiNames[last.page, last.dpi], DpiNames[last.page, other]}
                \subseteq FilesOf(cache[DirOf[p]])
          /\ cache[DirOf[p]].files[DpiNames[last.page, other]].dpi = other

(***************************************************************************)
(* read_pdf_smart (Spec).  After a call `last` is its record and src is    *)
(* the document it read.                                                   *)
(***************************************************************************)
LastPath == CHOOSE p \in Paths : PathStrs[p] = last.path
LastDoc == DocPages(src[LastPath].size)

\* C7: a successful read_pdf_smart emits each page of the range once, in
\* ascending order; a page is emitted as an image, from its default artifact
\* in the cache directory, exactly when it reports at least one image or at
\* least one drawing, and as its text otherwise, and the call renders no
\* artifact for a text page; the summary counts the pages of each kind and
\* the two counts add up to the length of the range.
C7_SmartClassification ==
    (last.op = "smart" /\ last.outcome = "ok") =>
        /\ Len(last.emitted) = last.hi - last.lo
        /\ \A i \in 1..Len(last.emitted) : last.emitted[i].page = last.lo + i
        /\ \A i \in 1..Len(last.emitted) :
              LET item == last.emitted[i]
                  pg == LastDoc[item.page]
                  name == DefaultArtifactName(item.page)
              IN
              IF pg.images >= 1 \/ pg.drawings >= 1
              THEN /\ item.kind = "image"
                   /\ item.name = name
                   /\ name \in last.hits \cup last.rasterized
                   /\ HasFile(cache[DirOf[LastPath]], name)
                   /\ item.image = cache[DirOf[LastPath]].files[name]
              ELSE /\ item.kind = "text"
                   /\ item.text = pg.text
                   /\ name \notin last.rasterized
        /\ last.summary =
              << Cardinality({i \in 1..Len(last.emitted) : last.emitted[i].kind = "text"}),
                 Cardinality({i \in 1..Len(last.emitted) : last.emitted[i].kind = "image"}) >>
        /\ last.summary[1] + last.summary[2] = last.hi - last.lo

\* C7 witness: a successful call over a text page and a page that has an
\* image and no drawing; or over a page that has drawings and no image.
C7_Witness ==
    /\ last.op = "smart" /\ last.outcome = "ok"
    /\ \/ /\ \E i \in 1..Len(last.emitted) : last.emitted[i].kind = "text"
          /\ \E i \in 1..Len(last.emitted) :
                /\ last.emitted[i].kind = "image"
                /\ LastDoc[last.emitted[i].page].drawings = 0
       \/ \E i \in 1..Len(last.emitted) :
                /\ last.emitted[i].kind = "image"
                /\ LastDoc[last.emitted[i].page].images = 0

(***************************************************************************)
(* clear_pdf_cache (Spec).                                                 *)
(***************************************************************************)
\* C8: a dry run leaves the cache as it is, and a clear_pdf_cache that
\* follows it at once and deletes reports the file count and the size the
\* dry run reported, which are the number and the bytes of the files it
\* removes with the directory.
C8_DryRunReportsTheDeletion ==
    /\ [][ (last'.op = "clear" /\ last'.dry) => cache' = cache ]_vars
    /\ [][ \A p \in ActivePaths :
              (/\ last.op = "clear" /\ last.dry /\ last.outcome = "ok"
               /\ last'.op = "clear" /\ ~last'.dry /\ last'.outcome = "ok"
               /\ last.path = PathStrs[p] /\ last'.path = PathStrs[p]) =>
                  /\ last'.found = last.found
                  /\ last'.fileCount = last.fileCount
                  /\ last'.totalSize = last.totalSize
                  /\ last'.sizeText = last.sizeText
                  /\ last'.fileCount = Cardinality(FilesOf(cache[DirOf[p]]))
                  /\ last'.totalSize =
                        (IF cache[DirOf[p]].exists
                         THEN SumBytes(cache[DirOf[p]].files, DOMAIN cache[DirOf[p]].files)
                         ELSE 0)
                  /\ ~cache'[DirOf[p]].exists
         ]_vars

\* C8 witness: a dry run has reported a cache of the metadata file and two
\* artifacts or more, which is still there.
C8_Witness ==
    /\ last.op = "clear" /\ last.dry /\ last.outcome = "ok" /\ last.found
    /\ last.fileCount >= 3 /\ last.totalSize > 0
    /\ last.fileCount = Cardinality(FilesOf(cache[DirOf[LastPath]]))

(***************************************************************************)
(* Page numbers out of range (Spec).                                       *)
(***************************************************************************)
\* C9: read_pdf_page and render_pdf_page called on an existing document with
\* a page number outside 1..len(doc) raise ValueError and change nothing in
\* the file system.
C9_BadPageNumberRejected ==
    [][ \A p \in ActivePaths :
          (/\ last'.op \in {"page", "render"} /\ last'.path = PathStrs[p]
           /\ last'.opened = 1
           /\ (last'.page < 1 \/ last'.page > Len(DocPages(src[p].size)))) =>
              /\ last'.outcome = "ValueError"
              /\ ~last'.resolved /\ last'.rasterized = {}
              /\ cache' = cache
      ]_vars

\* C9 witness: a page number beyond the last page was rejected while the
\* cache directory was stale and held artifacts.
C9_Witness ==
    /\ last.op \in {"page", "render"} /\ last.outcome = "ValueError"
    /\ last.page = Len(LastDoc) + 1
    /\ MetaStatus(src[LastPath], cache[DirOf[LastPath]]) = "stale"
    /\ ArtifactsOf(cache[DirOf[LastPath]]) /= {}

(***************************************************************************)
(* The document handle (Spec).                                             *)
(***************************************************************************)
OpeningTools == {"info", "text", "page", "all", "smart", "render"}

\* C10: no document is open between calls; a call of one of the six tools
\* that opened the document closed it exactly once, however it ended, and a
\* call that did not open it closed nothing.
C10_HandleReleased ==
    /\ handles = 0
    /\ last.op \in OpeningTools =>
          /\ last.opened \in {0, 1}
          /\ last.closed = last.opened
          /\ (last.outcome \notin {"FileNotFoundError", "FileDataError"}) => last.opened = 1

\* C10 witness: read_pdf_all or read_pdf_smart failed at the second page of
\* its loop, after the first page was emitted.
C10_Witness ==
    /\ last.op \in {"all", "smart"} /\ last.outcome \notin {"ok", "ValueError"}
    /\ last.resolved /\ Len(last.emitted) = 1 /\ last.hi - last.lo = 2
    /\ last.opened = 1 /\ last.closed = 1

(***************************************************************************)
(* TamperSpec: the tools that resolve the cache directory, called one      *)
(* after another without injected failures, while the environment writes   *)
(* the source and overwrites or removes the metadata file.                 *)
(***************************************************************************)
\* what the metadata file can hold that _save_cache_meta did not write
ForeignTexts ==
    { JsonTruncated,
      [form |-> "array"],
      [form |-> "binary"],
      [form |-> "unreadable"],
      JsonDump([pdf_path |-> PathStrs[PathA], pdf_mtime |-> 0]),
      JsonDump([pdf_path |-> PathStrs[PathA], pdf_size |-> 1000]) }

Drop(f, k) == [x \in (DOMAIN f) \ {k} |-> f[x]]

TamperMeta(d, text) ==
    /\ cache[d].exists
    /\ cache' = [cache EXCEPT ![d] = WriteFile(@, CACHE_META_FILE, MetaFile(text))]
    /\ last' = Env
    /\ UNCHANGED <<src, now, handles, rng, proc>>

RemoveMeta(d) ==
    /\ HasFile(cache[d], CACHE_META_FILE)
    /\ cache' = [cache EXCEPT ![d] = [@ EXCEPT !.files = Drop(@, CACHE_META_FILE)]]
    /\ last' = Env
    /\ UNCHANGED <<src, now, handles, rng, proc>>

TamperNext ==
    \/ Tick
    \/ \E p \in ActivePaths, size \in SrcSizes : WriteSource(p, size)
    \/ \E p \in ActivePaths, text \in ForeignTexts : TamperMeta(DirOf[p], text)
    \/ \E p \in ActivePaths : RemoveMeta(DirOf[p])
    \/ \E p \in ActivePaths, n \in PageNumbers : CallPage(p, n, NoFault)
    \/ \E p \in ActivePaths : CallAll(p, None, None, NoFault)
    \/ \E p \in ActivePaths : CallSmart(p, None, None, NoFault)
    \/ \E p \in ActivePaths, dpi \in Dpis : CallRender(p, 1, dpi, NoFault)

TamperSpec == Init /\ [][TamperNext]_vars

(***************************************************************************)
(* The metadata file (TamperSpec).                                         *)
(***************************************************************************)
\* the step is a call on p of a tool that got as far as the cache resolution
ReachedResolution(p) ==
    /\ last'.op \in ResolvingTools
    /\ last'.path = PathStrs[p]
    /\ last'.opened = 1
    /\ last'.outcome /= "ValueError"

\* the directory holds the record _save_cache_meta writes for p now
HoldsFreshRecord(p, dir) ==
    /\ HasFile(dir, CACHE_META_FILE)
    /\ dir.files[CACHE_META_FILE] = MetaFile(JsonDump(MetaRecord(p, src[p], now)))

\* C11: whenever the metadata file is absent or is anything but a record
\* holding pdf_mtime and pdf_size, the cache resolution returns, having
\* deleted the directory and written a new record; no error reaches the
\* caller.
C11_FailClosed ==
    [][ \A p \in ActivePaths :
          (/\ ReachedResolution(p)
           /\ MetaStatus(src[p], cache[DirOf[p]]) \in {"nometa", "corrupt"}) =>
              /\ last'.outcome = "ok"
              /\ last'.resolved /\ last'.invalidated /\ last'.metaWritten
              /\ HoldsFreshRecord(p, cache'[DirOf[p]])
      ]_vars

(***************************************************************************)
(* A source path that does not exist (Spec).                               *)
(***************************************************************************)
PublicTools == {"info", "text", "page", "all", "smart", "render", "marker", "clear"}

\* C12: a call of any tool on a path at which there is no file raises
\* FileNotFoundError without opening anything, and leaves every cache
\* directory as it is: nothing is created, deleted, resolved or rendered.
C12_MissingSourceRejected ==
    [][ \A p \in ActivePaths :
          (last'.op \in PublicTools /\ last'.path = PathStrs[p] /\ ~src[p].exists) =>
              /\ last'.outcome = "FileNotFoundError"
              /\ last'.opened = 0 /\ last'.closed = 0
              /\ ~last'.resolved /\ ~last'.invalidated /\ ~last'.metaWritten
              /\ last'.rasterized = {} /\ last'.emitted = <<>>
              /\ cache' = cache
      ]_vars

\* C12 witness: a call was rejected for a missing source while the cache
\* directory of an earlier version of the path, with artifacts, is there.
C12_Witness ==
    /\ last.op \in PublicTools /\ last.outcome = "FileNotFoundError" /\ last.opened = 0
    /\ ~src[LastPath].exists
    /\ ArtifactsOf(cache[DirOf[LastPath]]) /= {}

(***************************************************************************)
(* The metadata after a cache resolution (TamperSpec).                     *)
(***************************************************************************)
\* the directory holds a metadata record of the source's mtime and size
RecordMatches(s, dir) ==
    /\ HasFile(dir, CACHE_META_FILE)
    /\ LET text == dir.files[CACHE_META_FILE].text IN
       /\ text.form = "object"
       /\ {"pdf_mtime", "pdf_size"} \subseteq DOMAIN text.fields
       /\ text.fields.pdf_mtime = s.mtime
       /\ text.fields.pdf_size = s.size

\* C13: after a cache resolution that returns, whatever it found (no
\* directory, a valid one, a stale one, one without a metadata file, one
\* with a damaged metadata file), the directory exists and holds a metadata
\* record of the source's current mtime and size; a directory found without
\* a metadata file was deleted, and holds the new record and what the call
\* rendered, and nothing else.
C13_MetadataAfterResolution ==
    [][ \A p \in ActivePaths :
          ResolvedFor(p) =>
              /\ cache'[DirOf[p]].exists
              /\ RecordMatches(src[p], cache'[DirOf[p]])
              /\ MetaStatus(src'[p], cache'[DirOf[p]]) = "valid"
              /\ MetaStatus(src[p], cache[DirOf[p]]) = "nometa" =>
                    /\ last'.invalidated /\ last'.metaWritten
                    /\ HoldsFreshRecord(p, cache'[DirOf[p]])
                    /\ ArtifactsOf(cache'[DirOf[p]]) = last'.rasterized
      ]_vars

\* C13 witness: a call found a directory without its metadata file, later
\* than the source was written, and left a new record.
C13_Witness ==
    /\ last.op \in ResolvingTools /\ last.resolved
    /\ last.cacheWas = "nometa" /\ last.invalidated /\ last.metaWritten
    /\ RecordMatches(src[LastPath], cache[DirOf[LastPath]])
    /\ cache[DirOf[LastPath]].files[CACHE_META_FILE].text.fields.created_at
          > src[LastPath].mtime

(***************************************************************************)
(* PairSpec: read_pdf_page and render_pdf_page called on docs/a.pdf and    *)
(* docs/a.xps, which fitz opens alike and whose cache directory is the     *)
(* same docs/a_pdf_cache.                                                  *)
(***************************************************************************)
PairNext ==
    \/ Tick
    \/ \E p \in Paths, size \in SrcSizes : WriteSource(p, size)
    \/ \E p \in Paths, n \in PageNumbers : CallPage(p, n, NoFault)
    \/ \E p \in Paths, dpi \in Dpis : CallRender(p, 1, dpi, NoFault)

PairSpec == Init /\ [][PairNext]_vars

\* C14: every artifact in a cache directory was rendered from the source
\* path its metadata record names.
C14_OneSourcePerDirectory ==
    \A d \in CacheDirs :
        (/\ HasFile(cache[d], CACHE_META_FILE)
         /\ cache[d].files[CACHE_META_FILE].text.form = "object") =>
            \A name \in ArtifactsOf(cache[d]) :
                cache[d].files[name].path = cache[d].files[CACHE_META_FILE].text.fields.pdf_path

(***************************************************************************)
(* The life of an artifact (Spec).                                         *)
(***************************************************************************)
\* the artifact `name` of directory d is there after the step, with the
\* content and the write count it had before
ArtifactKept(d, name) ==
    /\ name \in FilesOf(cache'[d])
    /\ cache'[d].files[name] = cache[d].files[name]
    /\ cache'[d].writes[name] = cache[d].writes[name]

\* C15: an artifact that is in a cache directory is still there, unchanged
\* and not rewritten, after any step, except after a call whose cache
\* resolution found the record's mtime or size differing from the source's
\* and deleted the directory, and after a clear_pdf_cache that is not a dry
\* run.
C15_ArtifactLifecycle ==
    [][ \A p \in ActivePaths :
          \A name \in ArtifactsOf(cache[DirOf[p]]) :
              \/ ArtifactKept(DirOf[p], name)
              \/ /\ last'.op \in ResolvingTools /\ last'.path = PathStrs[p]
                 /\ last'.invalidated
                 /\ MetaStatus(src[p], cache[DirOf[p]]) = "stale"
              \/ /\ last'.op = "clear" /\ last'.path = PathStrs[p]
                 /\ ~last'.dry /\ last'.outcome = "ok"
      ]_vars

\* C15 witness: read_pdf_all found artifacts made by earlier calls, one of
\* them a render at 300 dpi, kept them and added its own.
C15_Witness ==
    /\ last.op = "all" /\ last.outcome = "ok" /\ ~last.invalidated
    /\ last.hits /= {} /\ last.rasterized /= {}
    /\ \E page \in PageNumbers : HasFile(cache[DirOf[LastPath]], DpiNames[page, 300])

(***************************************************************************)
(* The images returned (Spec).  The source changes only between calls, so  *)
(* after a call src is the source the call read.                           *)
(***************************************************************************)
\* the artifact was rasterized from the source as it is
FromCurrentSource(file, s) == file.mtime = s.mtime /\ file.size = s.size

\* C16: every image a successful read_pdf_page, read_pdf_all or
\* read_pdf_smart returns, and the artifact a successful render_pdf_page
\* returns the path of, was rasterized from a source whose mtime and size
\* are the source's at the time of the call.
C16_NoStaleArtifact ==
    /\ (last.op \in {"page", "all", "smart"} /\ last.outcome = "ok") =>
          \A i \in 1..Len(last.emitted) :
              last.emitted[i].kind = "image" =>
                  FromCurrentSource(last.emitted[i].image, src[LastPath])
    /\ (last.op = "render" /\ last.outcome = "ok") =>
          /\ last.retPath = DirOf[LastPath] \o "/" \o DpiNames[last.page, last.dpi]
          /\ HasFile(cache[DirOf[LastPath]], DpiNames[last.page, last.dpi])
          /\ FromCurrentSource(cache[DirOf[LastPath]].files[DpiNames[last.page, last.dpi]],
                               src[LastPath])

\* C16 witness: a call returned an image after it found the cache stale,
\* the source having been rewritten at a later time.
C16_Witness ==
    /\ last.op \in {"page", "all", "smart"} /\ last.outcome = "ok"
    /\ last.cacheWas = "stale" /\ last.invalidated
    /\ \E i \in 1..Len(last.emitted) : last.emitted[i].kind = "image"
    /\ src[LastPath].mtime > 0

(***************************************************************************)
(* Which tools resolve the cache directory (Spec).                         *)
(***************************************************************************)
\* after the call the cache directory of its document exists and its
\* record matches the source
CacheIsCurrent ==
    /\ cache[DirOf[LastPath]].exists
    /\ MetaStatus(src[LastPath], cache[DirOf[LastPath]]) = "valid"

\* C17 as stated: after a successful call of any of the six tools that
\* open the document, the call has resolved the cache directory, which
\* exists and is not stale.
C17_EveryToolResolves ==
    (last.op \in OpeningTools /\ last.outcome = "ok") =>
        /\ last.resolved
        /\ CacheIsCurrent

\* C17, amended: that holds of read_pdf_page, read_pdf_all, read_pdf_smart
\* and render_pdf_page, which also have deleted a cache they found stale;
\* read_pdf_info and read_pdf_text resolve nothing and leave every cache
\* directory as it is, absent or stale.
C17_RenderingToolsResolve ==
    /\ [] ((last.op \in ResolvingTools /\ last.outcome = "ok") =>
              /\ last.resolved
              /\ CacheIsCurrent
              /\ last.cacheWas = "stale" => last.invalidated)
    /\ [][ last'.op \in {"info", "text"} => (~last'.resolved /\ cache' = cache) ]_vars

\* C17 witness: read_pdf_smart found the cache stale and replaced it, in a
\* call that also emitted a page as text.
C17_Witness ==
    /\ last.op \in ResolvingTools /\ last.outcome = "ok"
    /\ last.cacheWas = "stale" /\ last.invalidated /\ CacheIsCurrent
    /\ last.op = "smart" /\ last.textCount >= 1

(***************************************************************************)
(* A failure inside the page loop (Spec).  A call whose outcome is not     *)
(* "ok" raised that exception and returned nothing; last.emitted is then   *)
(* what its result list held when the exception left the loop.             *)
(***************************************************************************)
RangeTools == {"text", "all", "smart"}

\* the call of a range tool entered its page loop
EnteredLoop ==
    /\ last.op \in RangeTools
    /\ last.opened = 1
    /\ last.op = "text" \/ last.resolved

\* C18: the page loop of read_pdf_text, read_pdf_all and read_pdf_smart
\* takes the pages of the range in order without skipping any; a call that
\* returns has taken them all; a call that fails at a page raises, has taken
\* the pages before it only, has produced no summary, has rendered nothing
\* for a later page, and the artifacts it rendered are in the directory.
C18_AllOrNothing ==
    EnteredLoop =>
        LET n == Len(last.emitted) IN
        /\ \A i \in 1..n : last.emitted[i].page = last.lo + i
        /\ last.outcome = "ok" => n = last.hi - last.lo
        /\ last.outcome /= "ok" =>
              /\ n < last.hi - last.lo
              /\ last.summary = <<>>
              /\ last.rasterized \subseteq
                    {DefaultNames[k] : k \in (last.lo + 1)..(last.lo + n + 1)}
              /\ \A name \in last.rasterized : HasFile(cache[DirOf[LastPath]], name)

\* C18 witness: read_pdf_all rendered and emitted page 1 and failed
\* rasterizing page 2.
C18_Witness ==
    /\ last.op = "all" /\ last.outcome = "RuntimeError"
    /\ last.lo = 0 /\ last.hi = 2 /\ Len(last.emitted) = 1
    /\ last.rasterized = {DefaultNames[1]}
    /\ HasFile(cache[DirOf[LastPath]], DefaultNames[1])
    /\ ~HasFile(cache[DirOf[LastPath]], DefaultNames[2])

(***************************************************************************)
(* The dimensions render_pdf_page reports (Spec).                          *)
(***************************************************************************)
\* pixmap.width and pixmap.height of the page of the call, at its dpi
RealDims(p) ==
    LET pg == DocPages(src[p].size)[last'.page] IN
    NatStr(PixWidth(pg, last'.dpi)) \o " x " \o NatStr(PixHeight(pg, last'.dpi))

\* the artifact of the call was in the directory when the call looked for
\* it, that is, after its cache resolution
FoundArtifact(p) ==
    /\ ~last'.invalidated
    /\ HasFile(cache[DirOf[p]], DpiNames[last'.page, last'.dpi])

\* C19: a successful render_pdf_page returns the path of the artifact of
\* its page and dpi; when the artifact was absent it rasterizes it and
\* reports the pixel width and height; when it was there it rasterizes
\* nothing, changes nothing and reports the placeholder; so the second of
\* two calls in a row for one key reports the placeholder.
C19_DimensionsOnlyWhenRendered ==
    /\ [][ \A p \in ActivePaths :
              (last'.op = "render" /\ last'.path = PathStrs[p] /\ last'.outcome = "ok") =>
                 /\ last'.retPath = DirOf[p] \o "/" \o DpiNames[last'.page, last'.dpi]
                 /\ RealDims(p) /= CacheDims
                 /\ IF FoundArtifact(p)
                    THEN /\ last'.dims = CacheDims
                         /\ last'.rasterized = {}
                         /\ cache' = cache
                    ELSE /\ last'.dims = RealDims(p)
                         /\ last'.rasterized = {DpiNames[last'.page, last'.dpi]}
         ]_vars
    /\ [][ SameRenderTwice => last'.dims = CacheDims ]_vars

\* C19 witness: a render at 300 dpi reported the pixel size of the page
\* after its resolution had deleted a stale cache.
C19_Witness ==
    /\ last.op = "render" /\ last.outcome = "ok" /\ last.dpi = 300
    /\ last.cacheWas = "stale" /\ last.invalidated
    /\ last.rasterized /= {} /\ last.dims /= CacheDims
    /\ last.dims \in {"300 x 600", "600 x 300"}

(***************************************************************************)
(* RaceSpec: two server processes work on docs/a.pdf, which exists and     *)
(* never changes.  Each runs read_pdf_page(path, 1) or                     *)
(* clear_pdf_cache(path, dry_run=False); a step is one file system call of *)
(* the code, and the steps of the two interleave freely: the code takes no *)
(* lock.  proc[i].pc names the call the process makes next, proc[i].lost   *)
(* records that the other process removed the directory during the call.   *)
(***************************************************************************)
RacePath == PathA
RaceDir == cache[DirOf[RacePath]]
RacePage == 1
RaceImage == DefaultNames[RacePage]

RaceInit ==
    /\ src = [p \in Paths |-> IF p = RacePath THEN SrcFile(0, 1000) ELSE NoFile]
    /\ cache = [d \in CacheDirs |-> NoDir]
    /\ now = 0
    /\ handles = 0
    /\ last = Blank("init", "")
    /\ rng = RangeInit
    /\ proc = [i \in Procs |-> Idle]

\* process i goes on to pc, leaving the directory as dir
Go(i, pc, dir) ==
    /\ proc' = [proc EXCEPT ![i].pc = pc]
    /\ cache' = [cache EXCEPT ![DirOf[RacePath]] = dir]
    /\ UNCHANGED <<src, now, handles, last, rng>>

\* the call of process i raises e
Fail(i, e) ==
    /\ proc' = [proc EXCEPT ![i].pc = "failed", ![i].error = e, ![i].at = proc[i].pc]
    /\ UNCHANGED <<src, cache, now, handles, last, rng>>

\* shutil.rmtree(cache_dir) by process i: the directory is gone for the
\* other process too, whatever it is doing
Rmtree(i, pc) ==
    IF ~RaceDir.exists THEN Fail(i, "FileNotFoundError")
    ELSE /\ proc' = [j \in Procs |->
                       IF j = i THEN [proc[j] EXCEPT !.pc = pc]
                       ELSE IF proc[j].pc /= "idle" THEN [proc[j] EXCEPT !.lost = TRUE]
                       ELSE proc[j]]
         /\ cache' = [cache EXCEPT ![DirOf[RacePath]] = NoDir]
         /\ UNCHANGED <<src, now, handles, last, rng>>

\* read_pdf_page: _load_pdf and the page number test (390-396)
RaceStartPage(i) ==
    /\ proc[i].pc = "idle" /\ proc[i].calls < MaxCalls
    /\ proc' = [proc EXCEPT ![i] = [pc |-> "dirExists", op |-> "page", calls |-> @.calls + 1,
                                     lost |-> FALSE, error |-> "-", at |-> "-",
                                     doc |-> NoFile]]
    /\ handles' = handles + 1
    /\ UNCHANGED <<src, cache, now, last, rng>>

\* _get_cache_dir: if cache_dir.exists() (150)
RaceDirExists(i) ==
    /\ proc[i].pc = "dirExists"
    /\ Go(i, IF RaceDir.exists THEN "metaExists" ELSE "mkdir", RaceDir)

\* _is_cache_valid: if not meta_file.exists() (81)
RaceMetaExists(i) ==
    /\ proc[i].pc = "metaExists"
    /\ Go(i, IF HasFile(RaceDir, CACHE_META_FILE) THEN "metaRead" ELSE "invalidate", RaceDir)

\* _is_cache_valid: open, json.load, stat and the comparison (84-102); a
\* file that has gone in between raises OSError, which is caught
RaceMetaRead(i) ==
    /\ proc[i].pc = "metaRead"
    /\ LET valid == IsCacheValid(src[RacePath], RaceDir) IN
       IF valid.exc /= "none" THEN Fail(i, valid.exc)
       ELSE Go(i, IF valid.value THEN "mkdir" ELSE "invalidate", RaceDir)

\* _invalidate_cache: if cache_dir.exists() (112)
RaceInvalidateExists(i) ==
    /\ proc[i].pc = "invalidate"
    /\ Go(i, IF RaceDir.exists THEN "rmtree" ELSE "mkdir", RaceDir)

\* _invalidate_cache: shutil.rmtree(cache_dir) (113)
RaceRmtree(i) ==
    /\ proc[i].pc = "rmtree"
    /\ Rmtree(i, "mkdir")

\* _get_cache_dir: cache_dir.mkdir(exist_ok=True) (156)
RaceMkdir(i) ==
    /\ proc[i].pc = "mkdir"
    /\ Go(i, "metaMissing", Mkdir(RaceDir, NoFault).dir)

\* _get_cache_dir: if not meta_file.exists() (160)
RaceMetaMissing(i) ==
    /\ proc[i].pc = "metaMissing"
    /\ Go(i, IF HasFile(RaceDir, CACHE_META_FILE) THEN "imageExists" ELSE "metaOpen", RaceDir)

\* _save_cache_meta: open(meta_file, "w") (133), which creates the file empty
RaceMetaOpen(i) ==
    /\ proc[i].pc = "metaOpen"
    /\ IF ~RaceDir.exists THEN Fail(i, "FileNotFoundError")
       ELSE Go(i, "metaDump", WriteFile(RaceDir, CACHE_META_FILE, MetaFile(JsonTruncated)))

\* _save_cache_meta: json.dump into the open file (134); when the file was
\* removed meanwhile the text goes to a file no directory holds
RaceMetaDump(i) ==
    /\ proc[i].pc = "metaDump"
    /\ Go(i, "imageExists",
          IF HasFile(RaceDir, CACHE_META_FILE)
          THEN WriteFile(RaceDir, CACHE_META_FILE,
                         MetaFile(JsonDump(MetaRecord(RacePath, src[RacePath], now))))
          ELSE RaceDir)

\* read_pdf_page: if not image_path.exists() (404)
RaceImageExists(i) ==
    /\ proc[i].pc = "imageExists"
    /\ Go(i, IF HasFile(RaceDir, RaceImage) THEN "read" ELSE "save", RaceDir)

\* read_pdf_page: get_pixmap and pixmap.save (407-408)
RaceSave(i) ==
    /\ proc[i].pc = "save"
    /\ IF ~RaceDir.exists THEN Fail(i, "OSError")
       ELSE Go(i, "read", WriteFile(RaceDir, RaceImage,
                                    Png(RacePath, src[RacePath], RacePage, DefaultDpi)))

\* read_pdf_page: open(image_path, "rb") and read (411-412)
RaceRead(i) ==
    /\ proc[i].pc = "read"
    /\ IF ~HasFile(RaceDir, RaceImage) THEN Fail(i, "FileNotFoundError")
       ELSE Go(i, "done", RaceDir)

\* clear_pdf_cache: the source exists (757); if not cache_dir.exists() (764)
RaceStartClear(i) ==
    /\ proc[i].pc = "idle" /\ proc[i].calls < MaxCalls
    /\ proc' = [proc EXCEPT ![i] = [pc |-> IF RaceDir.exists THEN "clearRmtree" ELSE "done",
                                     op |-> "clear", calls |-> @.calls + 1,
                                     lost |-> FALSE, error |-> "-", at |-> "-",
                                     doc |-> NoFile]]
    /\ UNCHANGED <<src, cache, now, handles, last, rng>>

\* clear_pdf_cache: shutil.rmtree(cache_dir) (792)
RaceClearRmtree(i) ==
    /\ proc[i].pc = "clearRmtree"
    /\ Rmtree(i, "done")

\* the call returns or raises; finally: doc.close() (419-420)
RaceFinish(i) ==
    /\ proc[i].pc \in {"done", "failed"}
    /\ proc' = [proc EXCEPT ![i].pc = "idle", ![i].lost = FALSE]
    /\ handles' = handles - (IF proc[i].op = "page" THEN 1 ELSE 0)
    /\ UNCHANGED <<src, cache, now, last, rng>>

RaceNext ==
    \E i \in Procs :
        \/ RaceStartPage(i)
        \/ RaceDirExists(i)
        \/ RaceMetaExists(i)
        \/ RaceMetaRead(i)
        \/ RaceInvalidateExists(i)
        \/ RaceRmtree(i)
        \/ RaceMkdir(i)
        \/ RaceMetaMissing(i)
        \/ RaceMetaOpen(i)
        \/ RaceMetaDump(i)
        \/ RaceImageExists(i)
        \/ RaceSave(i)
        \/ RaceRead(i)
        \/ RaceStartClear(i)
        \/ RaceClearRmtree(i)
        \/ RaceFinish(i)

RaceSpec == RaceInit /\ [][RaceNext]_vars

(***************************************************************************)
(* Concurrent calls (RaceSpec).                                            *)
(***************************************************************************)
\* C20: the calls of the two processes are not kept apart, and the only way
\* a call fails is an I/O error raised because the other process removed
\* the cache directory while the call was under way.  The witness below
\* is such a failure.
C20_FailsOnlyByTheOthersDeletion ==
    \A i \in Procs :
        proc[i].pc = "failed" =>
            /\ proc[i].lost
            /\ proc[i].error \in {"FileNotFoundError", "OSError"}
            /\ proc[i].at \in {"rmtree", "metaOpen", "save", "read", "clearRmtree"}

\* C20 witness: two first read_pdf_page calls on an unchanged source.  One
\* created the directory and went to write the metadata file; the other
\* found the directory without that file, took it for invalid and removed
\* it; the first failed opening the metadata file in the missing directory.
C20_Witness ==
    \E i, j \in Procs :
        /\ i /= j
        /\ proc[i].op = "page" /\ proc[j].op = "page"
        /\ proc[i].calls = 1 /\ proc[j].calls = 1
        /\ proc[i].pc = "failed" /\ proc[i].at = "metaOpen"
        /\ proc[i].error = "FileNotFoundError" /\ proc[i].lost
        /\ proc[j].pc = "mkdir"
        /\ src[RacePath] = SrcFile(0, 1000)
        /\ ~RaceDir.exists

(***************************************************************************)
(* ModSpec: one server process runs read_pdf_page(path, 1) or              *)
(* render_pdf_page(path, 1, 300) on docs/a.pdf while another program       *)
(* rewrites the document.  A step of the call is one of: open the          *)
(* document, resolve the cache directory, test the artifact, rasterize and *)
(* save, read the artifact, close.  fitz.open keeps the file it opened, so *)
(* the pages rasterized are those of the version opened (proc.doc), while  *)
(* _get_cache_dir stats the path again, later.                             *)
(***************************************************************************)
ModProc == 1
ModPath == PathA
ModDir == cache[DirOf[ModPath]]
ModPage == 1
ModTools == {"page", "render"}
ModDpi(op) == IF op = "page" THEN DefaultDpi ELSE 300
ModName(op) == IF op = "page" THEN DefaultNames[ModPage] ELSE DpiNames[ModPage, 300]

ModInit ==
    /\ src = [p \in Paths |-> IF p = ModPath THEN SrcFile(0, 1000) ELSE NoFile]
    /\ cache = [d \in CacheDirs |-> NoDir]
    /\ now = 0
    /\ handles = 0
    /\ last = Blank("init", "")
    /\ rng = RangeInit
    /\ proc = [i \in Procs |-> Idle]

\* the server goes on to pc, leaving the directory as dir
ModGo(pc, dir) ==
    /\ proc' = [proc EXCEPT ![ModProc].pc = pc]
    /\ cache' = [cache EXCEPT ![DirOf[ModPath]] = dir]
    /\ UNCHANGED <<src, now, handles, last, rng>>

\* doc = _load_pdf(path): the existence test and fitz.open (390, 593), then
\* the page number test, which page 1 passes
ModOpen(op) ==
    /\ proc[ModProc].pc = "idle"
    /\ src[ModPath].exists
    /\ proc' = [proc EXCEPT ![ModProc] = [Idle EXCEPT !.pc = "resolve", !.op = op,
                                                      !.doc = src[ModPath]]]
    /\ handles' = handles + 1
    /\ UNCHANGED <<src, cache, now, last, rng>>

\* cache_dir = _get_cache_dir(path) (397, 600), with the source as it is now
ModResolve ==
    /\ proc[ModProc].pc = "resolve"
    /\ LET Land(r) ==
               IF r.exc /= "none"
               THEN /\ proc' = [proc EXCEPT ![ModProc].pc = "done", ![ModProc].error = r.exc]
                    /\ cache' = [cache EXCEPT ![DirOf[ModPath]] = r.dir]
                    /\ UNCHANGED <<src, now, handles, last, rng>>
               ELSE ModGo("imageExists", r.dir)
       IN Land(GetCacheDir(ModPath, src[ModPath], ModDir, now, NoFault))

\* if not image_path.exists() (404, 606)
ModImageExists ==
    /\ proc[ModProc].pc = "imageExists"
    /\ ModGo(IF ~HasFile(ModDir, ModName(proc[ModProc].op)) THEN "save"
             ELSE IF proc[ModProc].op = "page" THEN "read" ELSE "done",
             ModDir)

\* page.get_pixmap and pixmap.save (405-408, 607-611): the page of the
\* document that was opened
ModSave ==
    /\ proc[ModProc].pc = "save"
    /\ ModGo(IF proc[ModProc].op = "page" THEN "read" ELSE "done",
             WriteFile(ModDir, ModName(proc[ModProc].op),
                       Png(ModPath, proc[ModProc].doc, ModPage, ModDpi(proc[ModProc].op))))

\* read_pdf_page: open(image_path, "rb") and read (411-412)
ModRead ==
    /\ proc[ModProc].pc = "read"
    /\ ModGo("done", ModDir)

\* finally: doc.close() (419-420, 628-629)
ModClose ==
    /\ proc[ModProc].pc = "done"
    /\ proc' = [proc EXCEPT ![ModProc] = Idle]
    /\ handles' = handles - 1
    /\ UNCHANGED <<src, cache, now, last, rng>>

ModNext ==
    \/ Tick
    \/ \E size \in SrcSizes : WriteSource(ModPath, size)
    \/ \E op \in ModTools : ModOpen(op)
    \/ ModResolve
    \/ ModImageExists
    \/ ModSave
    \/ ModRead
    \/ ModClose

ModSpec == ModInit /\ [][ModNext]_vars

(***************************************************************************)
(* The source rewritten during a call (ModSpec).                           *)
(***************************************************************************)
\* the version the metadata record of dir names
RecordedVersion(dir) ==
    SrcFile(dir.files[CACHE_META_FILE].text.fields.pdf_mtime,
            dir.files[CACHE_META_FILE].text.fields.pdf_size)

\* C21: whenever the metadata record of the cache directory matches the
\* source, so that the next cache resolution accepts the directory, every
\* artifact in it was rasterized from the version (mtime, size) the record
\* names, however the steps of a call and the rewrites of the source
\* interleave.
C21_NoStaleArtifactUnderModification ==
    MetaStatus(src[ModPath], ModDir) = "valid" =>
        \A name \in ArtifactsOf(ModDir) :
            FromCurrentSource(ModDir.files[name], RecordedVersion(ModDir))

(***************************************************************************)
(* clear_pdf_cache and the call after it (Spec).                           *)
(***************************************************************************)
\* the step is a clear_pdf_cache call on p
ClearStep(p) == last'.op = "clear" /\ last'.path = PathStrs[p]

\* the step is a call on p of a tool that uses the cache, its resolution
\* returned, and there was no cache directory before the call: the state a
\* clear_pdf_cache that deleted leaves
ResolvedFromNothing(p) ==
    /\ ResolvedFor(p)
    /\ ~cache[DirOf[p]].exists

\* C22: clear_pdf_cache creates no cache directory and no metadata file: it
\* leaves the directory as it is or removes it, and never touches the
\* source; called on a document without a cache directory it succeeds,
\* reports that there is none and changes nothing; after it returns from a
\* call that is not a dry run the directory does not exist.  A call of a
\* cache-using tool that finds no directory creates it, writes a metadata
\* record of the source as it is now, reuses no artifact and rasterizes
\* every image it returns.
C22_ClearPostState ==
    [][ \A p \in ActivePaths :
          /\ ClearStep(p) =>
                /\ cache'[DirOf[p]] \in {cache[DirOf[p]], NoDir}
                /\ src' = src
                /\ (src[p].exists /\ ~cache[DirOf[p]].exists) =>
                      /\ last'.outcome = "ok" /\ ~last'.found
                      /\ cache' = cache
                /\ (~last'.dry /\ last'.outcome = "ok") => ~cache'[DirOf[p]].exists
          /\ ResolvedFromNothing(p) =>
                /\ last'.metaWritten
                /\ HasFile(cache'[DirOf[p]], CACHE_META_FILE)
                /\ cache'[DirOf[p]].files[CACHE_META_FILE] =
                      MetaFile(JsonDump(MetaRecord(p, src[p], now)))
                /\ last'.hits = {}
                /\ ArtifactsOf(cache'[DirOf[p]]) = last'.rasterized
                /\ \A name \in last'.rasterized : cache'[DirOf[p]].writes[name] = 1
                /\ \A i \in 1..Len(last'.emitted) :
                      last'.emitted[i].kind = "image" =>
                          /\ last'.emitted[i].name \in last'.rasterized
                          /\ FromCurrentSource(last'.emitted[i].image, src[p])
      ]_vars

\* C22 witness: a clear_pdf_cache that was not a dry run found a directory
\* with the metadata file and at least two artifacts and removed it.
C22_Witness ==
    /\ last.op = "clear" /\ ~last.dry /\ last.outcome = "ok"
    /\ last.found /\ last.fileCount >= 3
    /\ src[LastPath].exists
    /\ ~cache[DirOf[LastPath]].exists

====
